---- MODULE Spec2Model ----
(***************************************************************************)
(* Model of HFInitialPoint                                                 *)
(* (qiskit_nature/algorithms/initial_points/hf_initial_point.py).          *)
(*                                                                         *)
(* Python values are tagged records, so that None, floats, arrays and      *)
(* object references can be compared with one another.  Lists are objects  *)
(* on a heap and are held by reference, as in Python: the instance and a   *)
(* circuit may hold the same list object.  Floats are counted in           *)
(* thousandths (-1137 is -1.137).                                          *)
(***************************************************************************)
EXTENDS Integers, Sequences, FiniteSets

VARIABLES self, circ, heap, last, everSet

vars == <<self, circ, heap, last, everSet>>

----------------------------------------------------------------------------
(* Bounds *)

MaxLen == 2

----------------------------------------------------------------------------
(* Python values *)

None == [type |-> "NoneType"]

Float(v) == [type |-> "float", val |-> v]

ListRef(i) == [type |-> "list", id |-> i]

UCCRef(c) == [type |-> "UCC", id |-> c]

NdArray(d) == [type |-> "ndarray", data |-> d]

zeros(n) == NdArray([i \in 1..n |-> Float(0)])

Truthy(v) == v # None

QiskitNatureError == [type |-> "QiskitNatureError"]

----------------------------------------------------------------------------
(* Inputs *)

Excitation(k) ==
    CASE k = 1 -> << <<0>>, <<2>> >>
      [] k = 2 -> << <<1>>, <<3>> >>
      [] OTHER -> << <<0, 1>>, <<2, k>> >>

Excitations == { Excitation(k) : k \in 1..MaxLen }

ExcLists ==
    { [i \in 1..Len(ks) |-> Excitation(ks[i])] :
        ks \in { js \in UNION { [1..n -> 1..MaxLen] : n \in 0..MaxLen } :
                    \A i \in 1..(Len(js) - 1) : js[i] < js[i + 1] } }

CircuitSeq == << "c1" >>

Circuits == { CircuitSeq[k] : k \in 1..Len(CircuitSeq) }

ObjIds == 1..(Cardinality(Circuits) + 2)

ReferenceEnergies == { None, Float(-1137), Float(250) }

ElectronicEnergy(e) == [type |-> "ElectronicEnergy", reference_energy |-> e]

GroupedProperty(p) == [type |-> "GroupedProperty", ElectronicEnergy |-> p]

PropertyContainers ==
    { GroupedProperty(None) } \cup
    { GroupedProperty(ElectronicEnergy(e)) : e \in ReferenceEnergies }

get_property(grouped_property) == grouped_property.ElectronicEnergy

----------------------------------------------------------------------------
(* The heap of list objects.  A world is the instance together with the   *)
(* circuits and the heap its calls can touch; gen is the excitation list   *)
(* that the circuit's generators produce if the circuit is built during   *)
(* the call.  Object ids are not observable: after each call the          *)
(* unreferenced lists are collected and the live ones renumbered in the   *)
(* order of their first holder.                                            *)

World(s, c, h, g) == [self |-> s, circ |-> c, heap |-> h, gen |-> g, warned |-> FALSE]

Roots(w) ==
    [k \in 1..(Len(CircuitSeq) + 1) |->
        IF k <= Len(CircuitSeq) THEN w.circ[CircuitSeq[k]]._excitation_list
                                ELSE w.self._excitation_list]

Refs(w) == { Roots(w)[k].id : k \in { j \in DOMAIN Roots(w) : Roots(w)[j] # None } }

Fresh(w) == CHOOSE i \in ObjIds \ Refs(w) : \A j \in ObjIds \ Refs(w) : i <= j

Collect(w) ==
    LET r     == Roots(w)
        first == { k \in DOMAIN r : r[k] # None /\ \A j \in 1..(k - 1) : r[j] # r[k] }
        new   == [k \in first |-> Cardinality({ j \in first : j <= k })]
        moved(ref) == IF ref = None THEN None
                      ELSE ListRef(new[CHOOSE k \in first : r[k] = ref])
    IN  [w EXCEPT
           !.heap = [n \in ObjIds |->
                       IF \E k \in first : new[k] = n
                       THEN w.heap[r[CHOOSE k \in first : new[k] = n].id]
                       ELSE << >>],
           !.circ = [c \in Circuits |->
                       [w.circ[c] EXCEPT !._excitation_list = moved(@)]],
           !.self._excitation_list = moved(@)]

len(w, ref) == Len(w.heap[ref.id])

----------------------------------------------------------------------------
(* The circuit (UCC): its operators, and with them its excitation list,   *)
(* are built on the first read of `operators`; until then the circuit     *)
(* holds no list, or the list of an earlier build.                        *)

UCC__init__ == [built |-> FALSE, _excitation_list |-> None]

UCC_operators(w, ansatz) ==
    LET c == ansatz.id IN
    IF w.circ[c].built THEN w
    ELSE LET i == Fresh(w) IN
         [w EXCEPT !.heap[i] = w.gen,
                   !.circ[c].built = TRUE,
                   !.circ[c]._excitation_list = ListRef(i)]

UCC_excitation_list(w, ansatz) == w.circ[ansatz.id]._excitation_list

UCC_invalidate(w, ansatz) == [w EXCEPT !.circ[ansatz.id].built = FALSE]

list_append(w, ref, e) == [w EXCEPT !.heap[ref.id] = Append(@, e)]

list_pop(w, ref) == [w EXCEPT !.heap[ref.id] = SubSeq(@, 1, Len(@) - 1)]

----------------------------------------------------------------------------
(* HFInitialPoint *)

HFInitialPoint__init__ ==
    [ _ansatz |-> None,
      _excitation_list |-> None,
      _reference_energy |-> Float(0),
      _parameters |-> None,
      _grouped_property |-> None ]

grouped_property_setter_ResetsEnergy(w, grouped_property) ==
    LET electronic_energy == get_property(grouped_property) IN
    IF electronic_energy = None
    THEN [w EXCEPT !.warned = TRUE, !.self._reference_energy = Float(0)]
    ELSE [w EXCEPT
            !.self._reference_energy = electronic_energy.reference_energy,
            !.self._grouped_property = grouped_property]

grouped_property_setter_DropsEnergy(w, grouped_property) ==
    LET electronic_energy == get_property(grouped_property) IN
    IF electronic_energy = None
    THEN [w EXCEPT !.warned = TRUE]
    ELSE [w EXCEPT !.self._grouped_property = grouped_property]

grouped_property_setter_StoresLacking(w, grouped_property) ==
    LET electronic_energy == get_property(grouped_property) IN
    IF electronic_energy = None
    THEN [w EXCEPT !.warned = TRUE,
                   !.self._grouped_property = grouped_property]
    ELSE [w EXCEPT
            !.self._reference_energy = electronic_energy.reference_energy,
            !.self._grouped_property = grouped_property]

grouped_property_setter_Invalidates(w, grouped_property) ==
    LET electronic_energy == get_property(grouped_property) IN
    IF electronic_energy = None
    THEN [w EXCEPT !.warned = TRUE]
    ELSE [w EXCEPT
            !.self._parameters = None,
            !.self._reference_energy = electronic_energy.reference_energy,
            !.self._grouped_property = grouped_property]

grouped_property_setter(w, grouped_property) ==
    LET electronic_energy == get_property(grouped_property) IN
    IF electronic_energy = None
    THEN [w EXCEPT !.warned = TRUE]
    ELSE [w EXCEPT
            !.self._reference_energy =
                IF ~Truthy(None) THEN electronic_energy.reference_energy
                                 ELSE Float(0),
            !.self._grouped_property = grouped_property]

ansatz_setter_KeepsCache(w, ansatz) ==
    LET w1 == UCC_operators(w, ansatz) IN
    [w1 EXCEPT !.self._excitation_list = UCC_excitation_list(w1, ansatz),
               !.self._ansatz = ansatz]

ansatz_setter_NoList(w, ansatz) ==
    LET w1 == UCC_operators(w, ansatz) IN
    [w1 EXCEPT !.self._parameters = None,
               !.self._ansatz = ansatz]

ansatz_setter_ReadsBeforeBuild(w, ansatz) ==
    LET w1 == UCC_operators(w, ansatz) IN
    [w1 EXCEPT !.self._parameters = None,
               !.self._excitation_list = UCC_excitation_list(w, ansatz),
               !.self._ansatz = ansatz]

ansatz_setter(w, ansatz) ==
    LET w1 == UCC_operators(w, ansatz) IN
    [w1 EXCEPT !.self._parameters = None,
               !.self._excitation_list = UCC_excitation_list(w1, ansatz),
               !.self._ansatz = ansatz]

excitation_list_setter_KeepsCache(w, excitations) ==
    [w EXCEPT !.self._excitation_list = excitations]

excitation_list_setter_ClearsAnsatz(w, excitations) ==
    [w EXCEPT !.self._parameters = None,
              !.self._excitation_list = excitations,
              !.self._ansatz = None]

excitation_list_setter(w, excitations) ==
    [w EXCEPT !.self._parameters = None,
              !.self._excitation_list = excitations]

_compute_Ones(w) ==
    [w EXCEPT !.self._parameters =
        NdArray([i \in 1..len(w, w.self._excitation_list) |-> Float(1000)])]

_compute_Accumulate(w) ==
    [w EXCEPT !.self._parameters =
        IF @ = None THEN zeros(len(w, w.self._excitation_list))
        ELSE zeros(Len(@.data) + len(w, w.self._excitation_list))]

_compute(w) ==
    [w EXCEPT !.self._parameters = zeros(len(w, w.self._excitation_list))]

compute_NoRaise(w, ansatz, grouped_property) ==
    LET w1 == IF grouped_property # None
              THEN grouped_property_setter(w, grouped_property) ELSE w
        w2 == IF ansatz # None THEN ansatz_setter(w1, ansatz) ELSE w1
    IN  IF w2.self._excitation_list = None
        THEN [w |-> w2, err |-> None]
        ELSE [w |-> _compute(w2), err |-> None]

compute_KeepsExplicitList(w, ansatz, grouped_property) ==
    LET w1 == IF grouped_property # None
              THEN grouped_property_setter(w, grouped_property) ELSE w
        w2 == IF ansatz # None /\ w1.self._excitation_list = None
              THEN ansatz_setter(w1, ansatz) ELSE w1
    IN  IF w2.self._excitation_list = None
        THEN [w |-> w2, err |-> QiskitNatureError]
        ELSE [w |-> _compute(w2), err |-> None]

compute_ChecksFirst(w, ansatz, grouped_property) ==
    IF ansatz = None /\ w.self._excitation_list = None
    THEN [w |-> w, err |-> QiskitNatureError]
    ELSE LET w1 == IF grouped_property # None
                   THEN grouped_property_setter(w, grouped_property) ELSE w
             w2 == IF ansatz # None THEN ansatz_setter(w1, ansatz) ELSE w1
         IN  [w |-> _compute(w2), err |-> None]

compute(w, ansatz, grouped_property) ==
    LET w1 == IF grouped_property # None
              THEN grouped_property_setter(w, grouped_property) ELSE w
        w2 == IF ansatz # None THEN ansatz_setter(w1, ansatz) ELSE w1
    IN  IF w2.self._excitation_list = None
        THEN [w |-> w2, err |-> QiskitNatureError]
        ELSE [w |-> _compute(w2), err |-> None]

to_numpy_array_AlwaysComputes(w) ==
    LET r == compute(w, None, None)
    IN  [w |-> r.w, err |-> r.err,
         value |-> IF r.err = None THEN r.w.self._parameters ELSE None]

to_numpy_array(w) ==
    LET r == IF w.self._parameters = None
             THEN compute(w, None, None)
             ELSE [w |-> w, err |-> None]
    IN  [w |-> r.w, err |-> r.err,
         value |-> IF r.err = None THEN r.w.self._parameters ELSE None]

get_energy(s) == s._reference_energy

----------------------------------------------------------------------------
(* State machine.  last is the most recent call with its arguments and   *)
(* its outcome; everSet records whether a circuit or an excitation list   *)
(* was ever given to the instance.                                         *)

Call(op, ansatz, grouped_property, excitations, err, value, warned) ==
    [op |-> op, ansatz |-> ansatz, grouped_property |-> grouped_property,
     excitations |-> excitations, err |-> err, value |-> value,
     warned |-> warned]

Now(g) == World(self, circ, heap, g)

Generated(c) == IF circ[c].built THEN { << >> } ELSE ExcLists

Commit(w) ==
    \E g \in { Collect(w) } :
        /\ self' = g.self
        /\ circ' = g.circ
        /\ heap' = g.heap

Init ==
    /\ self = HFInitialPoint__init__
    /\ circ = [c \in Circuits |-> UCC__init__]
    /\ heap = [i \in ObjIds |-> << >>]
    /\ last = Call("__init__", None, None, None, None, None, FALSE)
    /\ everSet = FALSE

SetPropertyContainer ==
    \E p \in PropertyContainers :
      \E w \in { grouped_property_setter(Now(<< >>), p) } :
        /\ Commit(w)
        /\ last' = Call("set_property_container", None, p, None, None, None, w.warned)
        /\ UNCHANGED everSet

SetCircuit ==
    \E c \in Circuits :
      \E g \in Generated(c) :
        \E w \in { ansatz_setter(Now(g), UCCRef(c)) } :
          /\ Commit(w)
          /\ last' = Call("set_circuit", UCCRef(c), None, None, None, None, w.warned)
          /\ everSet' = TRUE

SetExcitationList ==
    \E l \in ExcLists :
      \E i \in { Fresh(Now(<< >>)) } :
        \E w \in { excitation_list_setter([Now(<< >>) EXCEPT !.heap[i] = l], ListRef(i)) } :
          /\ Commit(w)
          /\ last' = Call("set_excitation_list", None, None, l, None, None, w.warned)
          /\ everSet' = TRUE

Compute ==
    \E p \in {None} \cup PropertyContainers :
      \/ \E r \in { compute(Now(<< >>), None, p) } :
            /\ Commit(r.w)
            /\ last' = Call("compute", None, p, None, r.err, None, r.w.warned)
            /\ UNCHANGED everSet
      \/ \E c \in Circuits :
            \E g \in Generated(c) :
              \E r \in { compute(Now(g), UCCRef(c), p) } :
                /\ Commit(r.w)
                /\ last' = Call("compute", UCCRef(c), p, None, r.err, None, r.w.warned)
                /\ everSet' = TRUE

ToVector ==
    \E r \in { to_numpy_array(Now(<< >>)) } :
        /\ Commit(r.w)
        /\ last' = Call("to_vector", None, None, None, r.err, r.value, r.w.warned)
        /\ UNCHANGED everSet

Next ==
    \/ SetPropertyContainer
    \/ SetCircuit
    \/ SetExcitationList
    \/ Compute
    \/ ToVector

Spec == Init /\ [][Next]_vars

----------------------------------------------------------------------------
(* The circuit's owner acting on the circuit between the calls: it may    *)
(* reconfigure the circuit (which drops the built operators and leaves    *)
(* the old excitation list in place until the next build), read           *)
(* `operators` itself, or change the circuit's list object in place.      *)

InvalidateCircuit ==
    \E c \in Circuits :
        /\ circ[c].built
        /\ Commit(UCC_invalidate(Now(<< >>), UCCRef(c)))
        /\ last' = Call("circuit_invalidate", UCCRef(c), None, None, None, None, FALSE)
        /\ UNCHANGED everSet

BuildCircuit ==
    \E c \in Circuits :
        /\ ~circ[c].built
        /\ \E g \in ExcLists : Commit(UCC_operators(Now(g), UCCRef(c)))
        /\ last' = Call("circuit_build", UCCRef(c), None, None, None, None, FALSE)
        /\ UNCHANGED everSet

MutateCircuitList ==
    \E c \in Circuits :
        /\ circ[c]._excitation_list # None
        /\ \/ \E e \in Excitations :
                /\ Append(heap[circ[c]._excitation_list.id], e) \in ExcLists
                /\ Commit(list_append(Now(<< >>), circ[c]._excitation_list, e))
                /\ last' = Call("circuit_list_append", UCCRef(c), None, None, None, None, FALSE)
           \/ /\ Len(heap[circ[c]._excitation_list.id]) > 0
              /\ Commit(list_pop(Now(<< >>), circ[c]._excitation_list))
              /\ last' = Call("circuit_list_pop", UCCRef(c), None, None, None, None, FALSE)
        /\ UNCHANGED everSet

NextEnv ==
    \/ Next
    \/ InvalidateCircuit
    \/ BuildCircuit
    \/ MutateCircuitList

SpecEnv == Init /\ [][NextEnv]_vars

----------------------------------------------------------------------------
(* Properties *)

SetterOps == { "set_circuit", "set_excitation_list" }

EnvOps == { "circuit_invalidate", "circuit_build",
            "circuit_list_append", "circuit_list_pop" }

HeldList(s, h) ==
    IF s._excitation_list = None THEN None
    ELSE [type |-> "list", items |-> h[s._excitation_list.id]]

SameLength(s, h) ==
    (s._parameters # None /\ s._excitation_list # None)
        => Len(s._parameters.data) = Len(h[s._excitation_list.id])

HasEnergy(p) == p # None /\ get_property(p) # None

LacksEnergy(p) == p # None /\ get_property(p) = None

(* C1: over the calls of the instance, whenever the cached parameter      *)
(* vector and the excitation list are both defined, the vector is as long *)
(* as the list.                                                            *)
C1_LengthInvariant == SameLength(self, heap)

C1_Witness ==
    /\ self._parameters # None
    /\ self._excitation_list # None
    /\ Len(self._parameters.data) = 2
    /\ last.op = "compute"

(* C2: to_vector on an instance that holds an excitation list of length n *)
(* succeeds and returns exactly n entries, each exactly zero.             *)
C2_ToVectorZeros ==
    (last.op = "to_vector" /\ self._excitation_list # None) =>
        /\ last.err = None
        /\ last.value # None
        /\ Len(last.value.data) = Len(heap[self._excitation_list.id])
        /\ \A i \in 1..Len(last.value.data) : last.value.data[i] = Float(0)

C2_Witness ==
    /\ last.op = "to_vector"
    /\ self._excitation_list # None
    /\ heap[self._excitation_list.id] = << << <<0>>, <<2>> >>, << <<1>>, <<3>> >> >>
    /\ last.value = NdArray(<< Float(0), Float(0) >>)

(* C3: compute without a circuit argument, on an instance to which        *)
(* neither a circuit nor an excitation list was ever given, fails with    *)
(* QiskitNatureError and leaves parameters and excitation list absent.    *)
C3_ComputeFromEmptyFails ==
    [][ (~everSet /\ last'.op = "compute" /\ last'.ansatz = None) =>
            /\ last'.err = QiskitNatureError
            /\ self'._parameters = None
            /\ self'._excitation_list = None ]_vars

C3_Witness ==
    /\ ~everSet
    /\ last.op = "compute"
    /\ last.err = QiskitNatureError
    /\ self._parameters = None
    /\ self._excitation_list = None

(* C4: every set_circuit and set_excitation_list leaves the cached vector *)
(* absent, and a to_vector right after set_excitation_list(L) has the     *)
(* length of L, whatever was computed from the circuit before.            *)
C4_SettersInvalidate ==
    [][ /\ (last'.op \in SetterOps => self'._parameters = None)
        /\ (last.op = "set_excitation_list" /\ last'.op = "to_vector") =>
              /\ last'.err = None
              /\ Len(last'.value.data) = Len(last.excitations) ]_vars

C4_Witness ==
    /\ last.op = "to_vector"
    /\ last.err = None
    /\ self._ansatz # None
    /\ self._excitation_list # UCC_excitation_list(Now(<< >>), self._ansatz)
    /\ Len(last.value.data) = Len(heap[self._excitation_list.id])
    /\ Len(last.value.data) #
         Len(heap[UCC_excitation_list(Now(<< >>), self._ansatz).id])

(* C5: after set_property_container with a container whose energy         *)
(* property has a null reference energy, get_energy returns 0.0.          *)
C5_NullEnergyIsZero ==
    (/\ last.op = "set_property_container"
     /\ HasEnergy(last.grouped_property)
     /\ get_property(last.grouped_property).reference_energy = None)
        => get_energy(self) = Float(0)

(* C6 as stated: a call that supplies a container lacking the energy      *)
(* property, directly or through compute, does not raise and leaves       *)
(* get_energy unchanged.                                                   *)
C6_LackingContainerNeverRaises ==
    [][ LacksEnergy(last'.grouped_property) =>
            /\ last'.err = None
            /\ get_energy(self') = get_energy(self) ]_vars

(* C6 amended: a call that supplies a container lacking the energy        *)
(* property leaves get_energy unchanged; set_property_container does not  *)
(* raise, and compute raises exactly when no excitation list is           *)
(* available.                                                              *)
C6_LackingContainerKeepsEnergy ==
    [][ LacksEnergy(last'.grouped_property) =>
            /\ get_energy(self') = get_energy(self)
            /\ last'.op = "set_property_container" => last'.err = None
            /\ last'.op = "compute" =>
                 (last'.err = None <=> self'._excitation_list # None)
            /\ last'.err \in { None, QiskitNatureError } ]_vars

C6_Witness ==
    /\ last.op = "compute"
    /\ LacksEnergy(last.grouped_property)
    /\ last.err = None
    /\ last.warned
    /\ get_energy(self) = Float(-1137)

(* C7: a container whose energy property has a non-null reference energy *)
(* E makes get_energy return exactly E, and every call that supplies no   *)
(* container with the energy property leaves get_energy as it was.        *)
C7_EnergyRoundTrip ==
    [][ /\ (/\ HasEnergy(last'.grouped_property)
             /\ get_property(last'.grouped_property).reference_energy # None)
              => get_energy(self') =
                    get_property(last'.grouped_property).reference_energy
        /\ ~HasEnergy(last'.grouped_property)
              => get_energy(self') = get_energy(self) ]_vars

C7_Witness ==
    /\ get_energy(self) = Float(-1137)
    /\ self._grouped_property = GroupedProperty(ElectronicEnergy(Float(-1137)))
    /\ last.op = "to_vector"
    /\ last.err = None

(* C8: once a circuit or an excitation list was given, an excitation list *)
(* is present in every later state; a further setter only clears the      *)
(* parameters; compute then succeeds and makes the parameters present;    *)
(* compute fails, with QiskitNatureError, only when nothing was ever      *)
(* given and no circuit is passed.                                         *)
C8_NeverBackToEmpty ==
    [][ /\ everSet => everSet'
        /\ everSet' => self'._excitation_list # None
        /\ (everSet /\ last'.op \in SetterOps) => self'._parameters = None
        /\ last'.op = "compute" =>
              IF everSet \/ last'.ansatz # None
              THEN last'.err = None /\ self'._parameters # None
              ELSE last'.err = QiskitNatureError /\ self'._parameters = None ]_vars

C8_Witness ==
    /\ everSet
    /\ last.op = "compute"
    /\ last.ansatz = None
    /\ last.err = None
    /\ self._parameters # None
    /\ self._ansatz # None
    /\ self._excitation_list # UCC_excitation_list(Now(<< >>), self._ansatz)

(* C9: a compute() that directly follows a successful compute returns the *)
(* same vector and changes no field of the instance.                      *)
C9_ComputeIdempotent ==
    [][ (/\ last.op = "compute" /\ last.err = None
         /\ last'.op = "compute" /\ last'.ansatz = None
         /\ last'.grouped_property = None)
          => /\ last'.err = None
             /\ self'._parameters = self._parameters
             /\ self' = self
             /\ heap' = heap ]_vars

C9_Witness ==
    /\ last.op = "compute"
    /\ last.ansatz = None
    /\ last.grouped_property = None
    /\ last.err = None
    /\ self._parameters = zeros(2)

(* C10: a change made to the circuit's excitation list by the circuit's   *)
(* owner, after set_circuit, changes neither the excitation list held by  *)
(* the instance nor the cached vector, and leaves vector and list of the  *)
(* same length.                                                            *)
C10_ExclusiveOwnership ==
    [][ (last'.op \in EnvOps /\ self._ansatz = last'.ansatz) =>
            /\ HeldList(self', heap') = HeldList(self, heap)
            /\ self'._parameters = self._parameters
            /\ SameLength(self', heap') ]_vars

(* C11: a call that sets the circuit builds the circuit's operators      *)
(* before it reads the circuit's excitation list: afterwards the circuit  *)
(* is built and the instance holds the list the circuit holds after the   *)
(* build, also when the circuit was not built and held no list or the     *)
(* list of an earlier build.                                               *)
C11_BuildBeforeRead ==
    [][ (last'.op \in { "set_circuit", "compute" } /\ last'.ansatz # None) =>
            /\ circ'[last'.ansatz.id].built
            /\ circ'[last'.ansatz.id]._excitation_list # None
            /\ self'._excitation_list = circ'[last'.ansatz.id]._excitation_list
            /\ self'._ansatz = last'.ansatz
            /\ circ[last'.ansatz.id].built =>
                  HeldList(self', heap') =
                    [type |-> "list",
                     items |-> heap[circ[last'.ansatz.id]._excitation_list.id]] ]_vars

C11_Witness ==
    /\ last.op = "set_circuit"
    /\ circ[last.ansatz.id].built
    /\ self._excitation_list = circ[last.ansatz.id]._excitation_list
    /\ Len(heap[self._excitation_list.id]) = 2

(* C12: the reference energy and the associated container change together *)
(* or not at all: a container lacking the energy property changes neither *)
(* and is never stored, and whenever a container is associated,           *)
(* get_energy is the reference energy of that container.                  *)
C12_EnergyAndContainerTogether ==
    [][ /\ LacksEnergy(last'.grouped_property) =>
              /\ self'._grouped_property = self._grouped_property
              /\ get_energy(self') = get_energy(self)
        /\ HasEnergy(last'.grouped_property) =>
              /\ self'._grouped_property = last'.grouped_property
              /\ get_energy(self') =
                   get_property(last'.grouped_property).reference_energy
        /\ self'._grouped_property # None =>
              /\ HasEnergy(self'._grouped_property)
              /\ get_energy(self') =
                   get_property(self'._grouped_property).reference_energy ]_vars

C12_Witness ==
    /\ last.op = "set_property_container"
    /\ LacksEnergy(last.grouped_property)
    /\ self._grouped_property = GroupedProperty(ElectronicEnergy(Float(250)))
    /\ get_energy(self) = Float(250)

(* C13: set_excitation_list changes only the excitation list and the      *)
(* cached parameters: the stored circuit, the reference energy, the       *)
(* associated container and the circuit's own list stay as they were, and *)
(* the active list is the given one.                                       *)
C13_SetExcitationListFrame ==
    [][ last'.op = "set_excitation_list" =>
            /\ self'._ansatz = self._ansatz
            /\ self'._reference_energy = self._reference_energy
            /\ self'._grouped_property = self._grouped_property
            /\ self'._parameters = None
            /\ HeldList(self', heap') = [type |-> "list", items |-> last'.excitations]
            /\ circ' = circ
            /\ \A c \in Circuits : circ[c]._excitation_list # None =>
                  heap'[circ[c]._excitation_list.id] = heap[circ[c]._excitation_list.id] ]_vars

C13_Witness ==
    /\ last.op = "set_excitation_list"
    /\ self._ansatz = UCCRef("c1")
    /\ self._excitation_list # circ["c1"]._excitation_list
    /\ heap[self._excitation_list.id] # heap[circ["c1"]._excitation_list.id]

(* C14: compute with a circuit argument ends as set_circuit followed by   *)
(* compute does: the list is the circuit's, whatever list was set before, *)
(* and the vector has its length; compute without a circuit argument      *)
(* keeps the stored circuit and the excitation list.                      *)
C14_ComputeWithCircuit ==
    [][ /\ (last'.op = "compute" /\ last'.ansatz # None) =>
              /\ last'.err = None
              /\ self'._ansatz = last'.ansatz
              /\ self'._excitation_list = circ'[last'.ansatz.id]._excitation_list
              /\ self'._parameters = zeros(Len(heap'[self'._excitation_list.id]))
              /\ \E g \in Generated(last'.ansatz.id) :
                    \E r \in { compute(ansatz_setter(Now(g), last'.ansatz),
                                       None, last'.grouped_property) } :
                      \E t \in { Collect(r.w) } :
                        /\ r.err = last'.err
                        /\ t.self = self'
                        /\ t.circ = circ'
                        /\ t.heap = heap'
        /\ (last'.op = "compute" /\ last'.ansatz = None) =>
              /\ self'._ansatz = self._ansatz
              /\ HeldList(self', heap') = HeldList(self, heap) ]_vars

C14_Witness ==
    /\ last.op = "compute"
    /\ last.ansatz = UCCRef("c1")
    /\ last.err = None
    /\ self._excitation_list = circ["c1"]._excitation_list
    /\ self._parameters = zeros(2)

(* C15: to_vector computes only when the cache is absent: with a cached   *)
(* vector it returns that vector and changes nothing; without one and     *)
(* with an excitation list it computes, caches and returns the vector;    *)
(* without an excitation list it fails with QiskitNatureError and the     *)
(* cache stays absent.                                                     *)
C15_ToVectorCases ==
    [][ last'.op = "to_vector" =>
            /\ self'._ansatz = self._ansatz
            /\ self'._reference_energy = self._reference_energy
            /\ self'._grouped_property = self._grouped_property
            /\ HeldList(self', heap') = HeldList(self, heap)
            /\ circ' = circ
            /\ IF self._parameters # None
               THEN /\ last'.err = None
                    /\ last'.value = self._parameters
                    /\ self'._parameters = self._parameters
               ELSE IF self._excitation_list # None
               THEN /\ last'.err = None
                    /\ self'._parameters = zeros(Len(heap[self._excitation_list.id]))
                    /\ last'.value = self'._parameters
               ELSE /\ last'.err = QiskitNatureError
                    /\ last'.value = None
                    /\ self'._parameters = None ]_vars

C15_Witness ==
    /\ last.op = "to_vector"
    /\ last.err = None
    /\ last.value = self._parameters
    /\ Len(last.value.data) # Len(heap[self._excitation_list.id])

(* C16: a compute that fails with QiskitNatureError has already applied   *)
(* its container argument: when the container has the energy property,    *)
(* get_energy afterwards is that container's reference energy and the     *)
(* container is associated.                                                *)
C16_ContainerAppliedBeforeFailure ==
    [][ (/\ last'.op = "compute"
         /\ last'.err = QiskitNatureError
         /\ HasEnergy(last'.grouped_property)) =>
            /\ get_energy(self') =
                 get_property(last'.grouped_property).reference_energy
            /\ self'._grouped_property = last'.grouped_property
            /\ self'._excitation_list = None
            /\ self'._parameters = None ]_vars

C16_Witness ==
    /\ last.op = "compute"
    /\ last.err = QiskitNatureError
    /\ last.grouped_property = GroupedProperty(ElectronicEnergy(Float(-1137)))
    /\ get_energy(self) = Float(-1137)
    /\ ~everSet

(* C17: set_property_container changes neither the excitation list, the   *)
(* stored circuit nor the cached vector, and set_circuit,                 *)
(* set_excitation_list, compute without a container and to_vector do not  *)
(* change get_energy.                                                      *)
C17_EnergyIndependentOfExcitations ==
    [][ /\ last'.op = "set_property_container" =>
              /\ self'._excitation_list = self._excitation_list
              /\ self'._ansatz = self._ansatz
              /\ self'._parameters = self._parameters
              /\ heap' = heap
              /\ circ' = circ
        /\ (\/ last'.op \in SetterOps \cup { "to_vector" }
            \/ last'.op = "compute" /\ last'.grouped_property = None) =>
              /\ get_energy(self') = get_energy(self)
              /\ self'._grouped_property = self._grouped_property ]_vars

C17_Witness ==
    /\ last.op = "set_property_container"
    /\ HasEnergy(last.grouped_property)
    /\ get_energy(self) = Float(250)
    /\ self._parameters = zeros(2)
    /\ self._ansatz # None

====
